---------------------------- MODULE Spec2Model ----------------------------
(***************************************************************************)
(* The session broker of remote-terminal (src/server.ts): the table of     *)
(* persistent PTY sessions, the per-connection handlers of the socket.io   *)
(* events, and the PTY callbacks onData / onExit.                          *)
(*                                                                         *)
(* Node runs every handler to completion on one thread, so each handler    *)
(* and each PTY callback is one atomic action.                             *)
(*                                                                         *)
(* Socket ids, session ids and session objects are numbered from 1;        *)
(* NULL (0) is JavaScript's null.  A session object lives on after it is   *)
(* deleted from the Map (closures and currentSession keep it), so objects  *)
(* are kept in `heap` and the Map `sessions` holds references to them.     *)
(*                                                                         *)
(* Beside the broker: the auth gate of the server as built with AUTH_TOKEN *)
(* (src/unnamed/part_000), and of the client (TerminalClient.tsx) its      *)
(* modifier keys and its reconnecting socket.                              *)
(***************************************************************************)
EXTENDS Naturals, Sequences, FiniteSets, TLC

\* ---- bounds of the model ----
MaxConns == 2       \* sockets that ever connect
MaxObjs == 3        \* sessions that are ever created
MaxGrowth == 5      \* connections + creations + onData events of a run

\* The program sets MAX_SESSIONS = 5 and SCROLLBACK_BUFFER_SIZE = 50000
\* (server.ts 16-17).  Both only enter comparisons and a slice length, so
\* they are model bounds here, small enough for the limits to be reached.
MAX_SESSIONS == 2
SCROLLBACK_BUFFER_SIZE == 3

NULL == 0

Conns == 1..MaxConns
Objs == 1..MaxObjs
Ids == 1..(MaxObjs + 1)

\* opts.name of create-session: absent or empty (both falsy), or given
Names == {"", "x"}

\* name of rename-session
NewNames == {"x"}

\* chunks a PTY may emit; the last one is longer than the scrollback
Chunks == {<<"A">>, <<"B">>, <<"0", "1", "2", "3", "4">>}

\* { exitCode, signal } of an exit event
ExitEvents == {[exitCode |-> 0, signal |-> 0], [exitCode |-> 1, signal |-> 1]}

VARIABLES
    nConn,          \* number of sockets that have connected so far
    connected,      \* the sockets connected now
    currentSession, \* per connection: its closure variable (an object or NULL)
    nObj,           \* number of session objects created so far
    heap,           \* the PersistentSession objects
    sessions,       \* the Map, as the sequence of its values in insertion order
    proc,           \* per object: "none", "running" or "exited" (onExit fired)
    out,            \* per object: everything its PTY has emitted (history)
    nData,          \* number of onData events so far
    emitted,        \* the messages the last handler emitted, in order
    ptyCalls,       \* the PTY calls the last handler made, in order
    console         \* the console.log lines the last handler wrote

\* the state of the broker (src/server.ts)
brokerVars == <<nConn, connected, currentSession, nObj, heap, sessions, proc,
                out, nData, emitted, ptyCalls, console>>

\* the auth gate of the server (src/unnamed/part_000)
VARIABLES
    AUTH_TOKEN,     \* process.env.AUTH_TOKEN || ''
    middleware,     \* the handshake the auth middleware saw in the last step,
                    \* and what it did with it
    req,            \* an HTTP request: its query token, cookies and
                    \* Authorization header
    token,          \* what getTokenFromRequest returned for req
    response        \* what the HTTP auth gate did with req

authVars == <<AUTH_TOKEN, middleware, req, token, response>>

\* the modifier keys of the client (TerminalClient.tsx)
VARIABLES
    ctrlMode,       \* React state: the CTRL button is shown active
    ctrlModeRef,    \* ctrlModeRef.current: what applyModifiers reads
    shiftMode,      \* React state: the SHIFT button is shown active
    shiftModeRef,   \* shiftModeRef.current
    sent            \* the data of the input events emitted so far

keyVars == <<ctrlMode, ctrlModeRef, shiftMode, shiftModeRef, sent>>

\* one client and its socket (TerminalClient.tsx)
VARIABLES
    activeSessionRef,   \* activeSessionRef.current: a session id or NULL
    socketRef,          \* the connection the client's socket has now, NULL
                        \* while it is disconnected
    uplink,             \* per connection: the client's events the server
                        \* has not handled yet
    downlink,           \* the server's events the client has not handled
    term                \* what the terminal shows of the session's output

clientVars == <<activeSessionRef, socketRef, uplink, downlink, term>>

\* what each connection was sent of its session's output (history)
VARIABLES
    received,       \* per connection: the data of the output events sent to
                    \* it since its last attached acknowledgment, concatenated
    ack             \* per connection: its last attached acknowledgment: the
                    \* session object, its buffer and the length of its
                    \* output history when the attach was handled, and
                    \* whether the session was attached to this connection
                    \* already

streamVars == <<received, ack>>

vars == <<brokerVars, authVars, keyVars, clientVars, streamVars>>

\* what the bounds count
Growth == nConn + nObj + nData

\* ---- PersistentSession ----
NoSession == [id |-> NULL, name |-> "", buffer |-> <<>>, socketId |-> NULL,
              alive |-> FALSE, createdAt |-> 0]

\* ---- the Map `sessions` (keys are the ids of the objects it holds) ----
MapHas(m, id) == \E i \in 1..Len(m) : heap[m[i]].id = id

MapGet(m, id) ==
    IF MapHas(m, id)
    THEN m[CHOOSE i \in 1..Len(m) : heap[m[i]].id = id]
    ELSE NULL

\* Map.set(id, h): a present key keeps its place and gets the new value
MapSet(m, id, h) ==
    IF MapHas(m, id)
    THEN [i \in 1..Len(m) |-> IF heap[m[i]].id = id THEN h ELSE m[i]]
    ELSE Append(m, h)

\* mutant: the entry is left in the Map
MapDeleteNothing(m, id) == m

MapDelete(m, id) == SelectSeq(m, LAMBDA h : heap[h].id # id)

\* Array.from(sessions.values()).filter(s => s.alive), on heap hp
AliveOf(m, hp) == SelectSeq(m, LAMBDA h : hp[h].alive)

\* mutant: the connected flag is inverted
SessionListInverted(m, hp) ==
    LET a == AliveOf(m, hp)
    IN  [i \in 1..Len(a) |->
            [id |-> hp[a[i]].id, name |-> hp[a[i]].name,
             connected |-> hp[a[i]].socketId = NULL,
             createdAt |-> hp[a[i]].createdAt]]

\* mutant: the list is in reverse order
SessionListReversed(m, hp) ==
    LET a == AliveOf(m, hp)
    IN  [i \in 1..Len(a) |->
            [id |-> hp[a[Len(a) + 1 - i]].id,
             name |-> hp[a[Len(a) + 1 - i]].name,
             connected |-> hp[a[Len(a) + 1 - i]].socketId # NULL,
             createdAt |-> hp[a[Len(a) + 1 - i]].createdAt]]

\* the list of list-sessions and broadcastSessions, on heap hp
SessionListOf(m, hp) ==
    LET a == AliveOf(m, hp)
    IN  [i \in 1..Len(a) |->
            [id |-> hp[a[i]].id, name |-> hp[a[i]].name,
             connected |-> hp[a[i]].socketId # NULL,
             createdAt |-> hp[a[i]].createdAt]]

\* ---- messages ----
Msg(to, ev) ==
    [to |-> to, ev |-> ev, id |-> NULL, name |-> "", data |-> <<>>,
     text |-> "", list |-> <<>>, exit |-> [exitCode |-> 0, signal |-> 0]]

\* mutant: socket.emit reaches every connected socket
SelfAndOthers(c) == connected

\* socket.emit reaches the socket itself
Self(c) == {c}

\* io.to(socketId) reaches the socket of that id while it is connected
Room(socketId) == {c \in connected : c = socketId}

\* mutant: io.emit reaches nobody
Nobody == {}

\* io.emit reaches every connected socket
Everyone == connected

PtyCall(call, obj) ==
    [call |-> call, obj |-> obj, data |-> "", cols |-> 0, rows |-> 0]

\* a console.log line: its text, with the socket id, session id, name and
\* exit event it prints
Line(text, socketId, id) ==
    [text |-> text, socketId |-> socketId, id |-> id, name |-> "",
     exit |-> [exitCode |-> 0, signal |-> 0]]

\* what the handler that runs emits, calls and prints
Log(ems, calls, lines) ==
    emitted' = ems /\ ptyCalls' = calls /\ console' = lines

\* ---- generateId ----
\* Math.random().toString(36).slice(2, 10): an arbitrary string, with no check
\* against the ids in use.  Ids are opaque, so the outcomes are taken up to
\* renaming: an id that was drawn before, or the first one that was not.
UsedIds == {heap[h].id : h \in 1..nObj}

GenerateId == UsedIds \cup {Cardinality(UsedIds) + 1}

\* the draws that repeat no earlier one
FreshId == GenerateId \ UsedIds

\* ---- io.on('connection') ----
Connect ==
    /\ nConn < MaxConns
    /\ Growth < MaxGrowth
    /\ nConn' = nConn + 1
    /\ connected' = connected \cup {nConn + 1}
    /\ currentSession' = [currentSession EXCEPT ![nConn + 1] = NULL]
    /\ Log(<<>>, <<>>, <<>>)
    /\ UNCHANGED <<nObj, heap, sessions, proc, out, nData>>

\* ---- list-sessions ----
ListSessions(c) ==
    /\ c \in connected
    /\ Log(<<[Msg(Self(c), "sessions") EXCEPT
                !.list = SessionListOf(sessions, heap)]>>,
           <<>>,
           <<>>)
    /\ UNCHANGED <<nConn, connected, currentSession, nObj, heap, sessions,
                   proc, out, nData>>

\* ---- create-session ----
\* mutant: the capacity check is off by one
CapacityReachedLate(n) == n > MAX_SESSIONS

\* aliveSessions.length >= MAX_SESSIONS
CapacityReached(n) == n >= MAX_SESSIONS

CapacityError ==
    "Max " \o ToString(MAX_SESSIONS) \o " sessions. Kill one first."

\* mutant: the default name counts every session ever created
SessionNameByTotal(optsName, n) ==
    IF optsName # "" THEN optsName ELSE "Shell " \o ToString(nObj + 1)

\* opts.name || `Shell ${aliveSessions.length + 1}`
SessionName(optsName, n) ==
    IF optsName # "" THEN optsName ELSE "Shell " \o ToString(n + 1)

NewSession(id, name, h) ==
    [id |-> id, name |-> name, buffer |-> <<>>, socketId |-> NULL,
     alive |-> TRUE, createdAt |-> h]

\* what a successful create-session emits, on the table and heap it leaves
CreateEmits(c, id, name, m, hp) ==
    << [Msg(Self(c), "session-created") EXCEPT !.id = id, !.name = name],
       [Msg(Everyone, "sessions") EXCEPT !.list = SessionListOf(m, hp)] >>

CreateRejected(c) ==
    /\ c \in connected
    /\ CapacityReached(Len(AliveOf(sessions, heap)))
    /\ Log(<<[Msg(Self(c), "error") EXCEPT !.text = CapacityError]>>,
           <<>>,
           <<>>)
    /\ UNCHANGED <<nConn, connected, currentSession, nObj, heap, sessions,
                   proc, out, nData>>

CreateAccepted(c, optsName, id) ==
    /\ c \in connected
    /\ ~CapacityReached(Len(AliveOf(sessions, heap)))
    /\ nObj < MaxObjs
    /\ Growth < MaxGrowth
    /\ LET h == nObj + 1
           name == SessionName(optsName, Len(AliveOf(sessions, heap)))
           hp == [heap EXCEPT ![h] = NewSession(id, name, h)]
           m == MapSet(sessions, id, h)
       IN  /\ nObj' = h
           /\ heap' = hp
           /\ sessions' = m
           /\ proc' = [proc EXCEPT ![h] = "running"]
           /\ Log(CreateEmits(c, id, name, m, hp),
                  <<PtyCall("spawn", h)>>,
                  <<[Line("Created session", NULL, id) EXCEPT
                       !.name = name]>>)
    /\ UNCHANGED <<nConn, connected, currentSession, out, nData>>

\* pty.spawn throws (forkpty fails): the handler is abandoned at the call,
\* inside no try block, so nothing is emitted and nothing is stored.  The
\* exception leaves the handler; a broker that Node then terminates takes no
\* further step.
CreateSpawnFails(c) ==
    /\ c \in connected
    /\ ~CapacityReached(Len(AliveOf(sessions, heap)))
    /\ Log(<<>>,
           <<PtyCall("spawn throws", NULL)>>,
           <<>>)
    /\ UNCHANGED <<nConn, connected, currentSession, nObj, heap, sessions,
                   proc, out, nData>>

\* draws: the values generateId may return
CreateSession(c, optsName, draws) ==
    \/ CreateRejected(c)
    \/ \E id \in draws : CreateAccepted(c, optsName, id)
    \/ CreateSpawnFails(c)

\* ---- shell.onData ----
\* JavaScript's s.slice(-n), n > 0: the last n characters of s
SliceLast(s, n) ==
    IF Len(s) <= n THEN s ELSE SubSeq(s, Len(s) - n + 1, Len(s))

\* mutant: the overflow is cut from the wrong end
AppendBufferKeepHead(buffer, data) ==
    IF Len(buffer \o data) > SCROLLBACK_BUFFER_SIZE
    THEN SubSeq(buffer \o data, 1, SCROLLBACK_BUFFER_SIZE)
    ELSE buffer \o data

\* session.buffer += data, cut to the scrollback size
AppendBuffer(buffer, data) ==
    IF Len(buffer \o data) > SCROLLBACK_BUFFER_SIZE
    THEN SliceLast(buffer \o data, SCROLLBACK_BUFFER_SIZE)
    ELSE buffer \o data

\* mutant: output is buffered only while a socket is attached
BufferOnDataAttached(s, data) ==
    IF s.socketId # NULL
    THEN IF Len(s.buffer \o data) > SCROLLBACK_BUFFER_SIZE
         THEN SliceLast(s.buffer \o data, SCROLLBACK_BUFFER_SIZE)
         ELSE s.buffer \o data
    ELSE s.buffer

\* the buffer of session s after a chunk: "always buffer output"
BufferOnData(s, data) == AppendBuffer(s.buffer, data)

\* mutant: the attached socket is sent the whole buffer at every chunk
OnDataEmitsBuffer(s, data) ==
    IF s.socketId # NULL
    THEN <<[Msg(Room(s.socketId), "output") EXCEPT
              !.data = AppendBuffer(s.buffer, data)]>>
    ELSE <<>>

\* mutant: live output goes to every connected socket
OnDataEmitsAll(s, data) ==
    <<[Msg(Everyone, "output") EXCEPT !.data = data]>>

\* mutant: a live chunk is sent twice
OnDataEmitsTwice(s, data) ==
    IF s.socketId # NULL
    THEN <<[Msg(Room(s.socketId), "output") EXCEPT !.data = data],
           [Msg(Room(s.socketId), "output") EXCEPT !.data = data]>>
    ELSE <<>>

\* if (session.socketId) io.to(session.socketId).emit('output', data)
OnDataEmits(s, data) ==
    IF s.socketId # NULL
    THEN <<[Msg(Room(s.socketId), "output") EXCEPT !.data = data]>>
    ELSE <<>>

OnData(h, data) ==
    /\ h \in 1..nObj
    /\ proc[h] = "running"
    /\ Growth < MaxGrowth
    /\ nData' = nData + 1
    /\ out' = [out EXCEPT ![h] = @ \o data]
    /\ heap' = [heap EXCEPT ![h].buffer = BufferOnData(heap[h], data)]
    /\ Log(OnDataEmits(heap[h], data),
           <<>>,
           <<>>)
    /\ UNCHANGED <<nConn, connected, currentSession, nObj, sessions, proc>>

\* ---- shell.onExit ----
\* mutant: an exit is announced to nobody
OnExitEmitsNothing(s, ev) == <<>>

OnExitEmits(s, ev) ==
    IF s.socketId # NULL
    THEN <<[Msg(Room(s.socketId), "session-exited") EXCEPT
              !.id = s.id, !.exit = ev]>>
    ELSE <<>>

OnExit(h, ev) ==
    /\ h \in 1..nObj
    /\ proc[h] = "running"
    /\ proc' = [proc EXCEPT ![h] = "exited"]
    /\ LET hp == [heap EXCEPT ![h].alive = FALSE]
           m == MapDelete(sessions, heap[h].id)
       IN  /\ heap' = hp
           /\ sessions' = m
           /\ Log(OnExitEmits(heap[h], ev) \o
                    <<[Msg(Everyone, "sessions") EXCEPT
                         !.list = SessionListOf(m, hp)]>>,
                  <<>>,
                  <<[Line("Session exited", NULL, heap[h].id) EXCEPT
                       !.exit = ev]>>)
    /\ UNCHANGED <<nConn, connected, currentSession, nObj, out, nData>>

\* ---- attach ----
NotFoundError(sessionId) == "Session " \o ToString(sessionId) \o " not found"

\* mutant: every attach is refused
AttachRefusedAlways(h) == TRUE

\* !session || !session.alive
AttachRefused(h) == IF h = NULL THEN TRUE ELSE ~heap[h].alive

\* mutant: the holder is notified also when it is the socket that attaches
DetachedEmitsAlways(c, s) ==
    IF s.socketId # NULL
    THEN <<[Msg(Room(s.socketId), "detached") EXCEPT !.id = s.id]>>
    ELSE <<>>

\* "Detach previous socket from this session": the notice to the holder
DetachedEmits(c, s) ==
    IF s.socketId # NULL /\ s.socketId # c
    THEN <<[Msg(Room(s.socketId), "detached") EXCEPT !.id = s.id]>>
    ELSE <<>>

\* mutant: the session the socket was attached to is not released
AttachHeapKeepsPrevious(c, cur, h) == [heap EXCEPT ![h].socketId = c]

\* "Detach this socket from any previous session", then session.socketId =
\* socket.id; cur is the connection's currentSession, h the session attached to
AttachHeap(c, cur, h) ==
    LET released == IF cur # NULL /\ heap[cur].id # heap[h].id
                    THEN [heap EXCEPT ![cur].socketId = NULL]
                    ELSE heap
    IN  [released EXCEPT ![h].socketId = c]

\* mutant: the replay is sent before the acknowledgment
ReplayEmitsFirst(c, s) ==
    (IF Len(s.buffer) > 0
     THEN <<[Msg(Self(c), "output") EXCEPT !.data = s.buffer]>>
     ELSE <<>>) \o
    <<[Msg(Self(c), "attached") EXCEPT !.id = s.id, !.name = s.name]>>

\* the acknowledgment, then the replay of a non-empty buffer
ReplayEmits(c, s) ==
    <<[Msg(Self(c), "attached") EXCEPT !.id = s.id, !.name = s.name]>> \o
    (IF Len(s.buffer) > 0
     THEN <<[Msg(Self(c), "output") EXCEPT !.data = s.buffer]>>
     ELSE <<>>)

\* mutant: the holder is notified after the new socket is acknowledged
AttachEmitsAckFirst(c, s) == ReplayEmits(c, s) \o DetachedEmits(c, s)

\* what a successful attach emits, in order
AttachEmits(c, s) == DetachedEmits(c, s) \o ReplayEmits(c, s)

AttachFailed(c, sessionId) ==
    /\ c \in connected
    /\ AttachRefused(MapGet(sessions, sessionId))
    /\ Log(<<[Msg(Self(c), "error") EXCEPT
                !.text = NotFoundError(sessionId)]>>,
           <<>>,
           <<>>)
    /\ UNCHANGED <<nConn, connected, currentSession, nObj, heap, sessions,
                   proc, out, nData>>

AttachDone(c, sessionId) ==
    /\ c \in connected
    /\ ~AttachRefused(MapGet(sessions, sessionId))
    /\ LET h == MapGet(sessions, sessionId)
       IN  /\ heap' = AttachHeap(c, currentSession[c], h)
           /\ currentSession' = [currentSession EXCEPT ![c] = h]
           /\ Log(AttachEmits(c, heap[h]),
                  <<>>,
                  <<Line("Socket attached to session", c, sessionId)>>)
    /\ UNCHANGED <<nConn, connected, nObj, sessions, proc, out, nData>>

Attach(c, sessionId) ==
    \/ AttachFailed(c, sessionId)
    \/ AttachDone(c, sessionId)

\* ---- input, resize ----
\* mutant: the alive flag is not tested
HoldsAny(cur) == cur # NULL

\* currentSession?.alive
HoldsAlive(cur) == cur # NULL /\ heap[cur].alive

InputCalls(cur, data) ==
    IF HoldsAlive(cur)
    THEN <<[PtyCall("write", cur) EXCEPT !.data = data]>>
    ELSE <<>>

Input(c, data) ==
    /\ c \in connected
    /\ Log(<<>>,
           InputCalls(currentSession[c], data),
           <<>>)
    /\ UNCHANGED <<nConn, connected, currentSession, nObj, heap, sessions,
                   proc, out, nData>>

Max1(n) == IF n > 1 THEN n ELSE 1

ResizeCalls(cur, size) ==
    IF HoldsAlive(cur)
    THEN <<[PtyCall("resize", cur) EXCEPT
              !.cols = Max1(size.cols), !.rows = Max1(size.rows)]>>
    ELSE <<>>

Resize(c, size) ==
    /\ c \in connected
    /\ Log(<<>>,
           ResizeCalls(currentSession[c], size),
           <<>>)
    /\ UNCHANGED <<nConn, connected, currentSession, nObj, heap, sessions,
                   proc, out, nData>>

\* ---- kill-session ----
\* mutant: a killed session keeps its alive flag
KillHeapStaysAlive(h) == [heap EXCEPT ![h].socketId = NULL]

\* mutant: a killed session keeps its socketId
KillHeapKeepsSocket(h) == [heap EXCEPT ![h].alive = FALSE]

KillHeap(h) == [heap EXCEPT ![h].alive = FALSE, ![h].socketId = NULL]

KillSession(c, sessionId) ==
    /\ c \in connected
    /\ LET h == MapGet(sessions, sessionId)
           cur == currentSession[c]
       IN  IF h # NULL
           THEN LET hp == KillHeap(h)
                    m == MapDelete(sessions, sessionId)
                IN  /\ heap' = hp
                    /\ sessions' = m
                    /\ currentSession' =
                         IF cur # NULL /\ heap[cur].id = sessionId
                         THEN [currentSession EXCEPT ![c] = NULL]
                         ELSE currentSession
                    /\ Log(<<[Msg(Everyone, "sessions") EXCEPT
                                 !.list = SessionListOf(m, hp)]>>,
                           <<PtyCall("kill", h)>>,
                           <<Line("Killing session", NULL, sessionId)>>)
           ELSE /\ Log(<<>>, <<>>, <<>>)
                /\ UNCHANGED <<currentSession, heap, sessions>>
    /\ UNCHANGED <<nConn, connected, nObj, proc, out, nData>>

\* ---- rename-session ----
RenameSession(c, id, name) ==
    /\ c \in connected
    /\ LET h == MapGet(sessions, id)
       IN  IF h # NULL
           THEN LET hp == [heap EXCEPT ![h].name = name]
                IN  /\ heap' = hp
                    /\ Log(<<[Msg(Everyone, "sessions") EXCEPT
                                 !.list = SessionListOf(sessions, hp)]>>,
                           <<>>,
                           <<>>)
           ELSE /\ Log(<<>>, <<>>, <<>>)
                /\ UNCHANGED heap
    /\ UNCHANGED <<nConn, connected, currentSession, nObj, sessions, proc,
                   out, nData>>

\* ---- disconnect ----
\* mutant: a disconnect ends the session it was attached to
DisconnectHeapKills(cur) ==
    IF cur # NULL
    THEN [heap EXCEPT ![cur].socketId = NULL, ![cur].alive = FALSE]
    ELSE heap

\* mutant: a disconnect leaves the session's socketId as it is
DisconnectHeapForgets(cur) == heap

\* "On disconnect, just detach": currentSession.socketId = null
DisconnectHeap(cur) ==
    IF cur # NULL THEN [heap EXCEPT ![cur].socketId = NULL] ELSE heap

Disconnect(c) ==
    /\ c \in connected
    /\ connected' = connected \ {c}
    /\ heap' = DisconnectHeap(currentSession[c])
    /\ currentSession' = [currentSession EXCEPT ![c] = NULL]
    /\ Log(<<>>,
           <<>>,
           <<Line("Socket disconnected (sessions preserved)", c, NULL)>>)
    /\ UNCHANGED <<nConn, nObj, sessions, proc, out, nData>>

\* ---- the auth gate (src/unnamed/part_000) ----
AUTH_COOKIE_NAME == "rt_token"

\* A JavaScript value that is a string, or null / undefined: <<>> is null and
\* <<s>> is the string s.
NoToken == <<>>

Str(s) == <<s>>

\* the value is neither null nor ''
Truthy(t) == t # NoToken /\ t[1] # ""

\* the tokens of the model: the secret, a wrong token of its length, a wrong
\* token of another length
Secret == "ab"

Tokens == {Secret, "xy", "abc"}

AUTH_ENABLED == Len(AUTH_TOKEN) > 0

\* mutant: every token passes
checkTokenAlways(t) == "true"

\* checkToken(token).  crypto.timingSafeEqual throws a RangeError when the two
\* buffers differ in byte length (the tokens of the model are ASCII, one byte
\* per character), so there are three outcomes.
checkToken(t) ==
    IF ~AUTH_ENABLED THEN "true"
    ELSE IF ~Truthy(t) THEN "false"
    ELSE IF Len(t[1]) # Len(AUTH_TOKEN) THEN "throws"
    ELSE IF t[1] = AUTH_TOKEN THEN "true"
    ELSE "false"

\* decodeURIComponent, on the cookie values of the model
decodeURIComponent(v) == IF v = "a%62" THEN "ab" ELSE v

\* cookies.match(new RegExp(`${AUTH_COOKIE_NAME}=([^;]+)`)) on a Cookie header
\* given as its name=value pairs in order: the first rt_token cookie with a
\* value of at least one character, decoded; null without one.  (No cookie
\* name of the model merely ends in rt_token.)
CookieToken(cookies) ==
    LET hits == {i \in 1..Len(cookies) :
                    cookies[i].name = AUTH_COOKIE_NAME /\ cookies[i].value # ""}
    IN  IF hits = {}
        THEN NoToken
        ELSE Str(decodeURIComponent(
                 cookies[CHOOSE i \in hits : \A j \in hits : i <= j].value))

\* an Authorization header "scheme rest"; scheme "" is no header
Header(scheme, rest) == [scheme |-> scheme, rest |-> rest]

\* authHeader.startsWith('Bearer ') ? authHeader.slice(7) : none
BearerToken(h) == IF h.scheme = "Bearer" THEN Str(h.rest) ELSE NoToken

\* getTokenFromRequest(req): ?token=, then the cookie, then the header
getTokenFromRequest(r) ==
    IF Truthy(r.query) THEN r.query
    ELSE IF CookieToken(r.cookie) # NoToken THEN CookieToken(r.cookie)
    ELSE IF BearerToken(r.authorization) # NoToken
         THEN BearerToken(r.authorization)
    ELSE NoToken

\* the requests of the model: url.searchParams.get('token') (null, '' or a
\* token), the Cookie header and the Authorization header
QueryTokens == {NoToken, Str("")} \cup {Str(t) : t \in Tokens}

CookieHeaders ==
    {<<>>,
     <<[name |-> AUTH_COOKIE_NAME, value |-> Secret]>>,
     <<[name |-> AUTH_COOKIE_NAME, value |-> "xy"]>>,
     <<[name |-> "theme", value |-> Secret],
       [name |-> AUTH_COOKIE_NAME, value |-> "a%62"]>>}

AuthorizationHeaders ==
    {Header("", ""), Header("Bearer", Secret), Header("Bearer", "xy"),
     Header("Basic", Secret)}

Requests ==
    [query : QueryTokens, cookie : CookieHeaders,
     authorization : AuthorizationHeaders]

\* the HTTP auth gate for a page that is neither POST /auth nor a public
\* asset: hand the request to Next.js, redirect with the cookie set, or show
\* the login page; a throw of checkToken leaves the handler
HttpGate(r) ==
    IF ~AUTH_ENABLED THEN "handle"
    ELSE LET first == checkToken(getTokenFromRequest(r))
         IN  IF first = "throws" THEN "throws"
             ELSE IF first = "true" THEN "handle"
             ELSE IF ~Truthy(r.query) THEN "login"
             ELSE IF checkToken(r.query) = "throws" THEN "throws"
             ELSE IF checkToken(r.query) = "true" THEN "redirect"
             ELSE "login"

\* the server handles the request req
HttpRequest ==
    /\ response = "none"
    /\ token' = getTokenFromRequest(req)
    /\ response' = HttpGate(req)
    /\ UNCHANGED <<AUTH_TOKEN, middleware, req>>

\* a socket.io handshake: handshake.auth?.token, handshake.query?.token and
\* the Cookie header
Handshakes ==
    [auth : {NoToken, Str(Secret), Str("xy")},
     query : {NoToken, Str(Secret), Str("abc")},
     cookie : {<<>>, <<[name |-> AUTH_COOKIE_NAME, value |-> Secret]>>}]

NoHandshake == [auth |-> NoToken, query |-> NoToken, cookie |-> <<>>]

\* auth?.token || query?.token || (the cookie's token or '')
HandshakeToken(hs) ==
    IF Truthy(hs.auth) THEN hs.auth
    ELSE IF Truthy(hs.query) THEN hs.query
    ELSE IF CookieToken(hs.cookie) # NoToken THEN CookieToken(hs.cookie)
    ELSE Str("")

\* what becomes of a handshake: without AUTH_TOKEN no middleware is installed;
\* with it the middleware calls next(), next(new Error(...)) or throws
Middleware(hs) ==
    IF ~AUTH_ENABLED THEN "absent"
    ELSE LET ok == checkToken(HandshakeToken(hs))
         IN  IF ok = "true" THEN "next()"
             ELSE IF ok = "false" THEN "next(Error)"
             ELSE "throws"

\* a socket connects: only a handshake the middleware lets through (or any,
\* without middleware) reaches io.on('connection')
AuthConnect(hs) ==
    /\ middleware' = [handshake |-> hs, outcome |-> Middleware(hs)]
    /\ IF Middleware(hs) \in {"absent", "next()"}
       THEN Connect
       ELSE /\ Log(<<>>, <<>>, <<>>)
            /\ UNCHANGED <<nConn, connected, currentSession, nObj, heap,
                           sessions, proc, out, nData>>
    /\ UNCHANGED <<AUTH_TOKEN, req, token, response>>

\* AUTH_TOKEN is not set
AuthOff ==
    /\ AUTH_TOKEN = ""
    /\ middleware = [handshake |-> NoHandshake, outcome |-> "none"]

\* no HTTP request is in hand
NoRequest ==
    /\ req = [query |-> NoToken, cookie |-> <<>>,
              authorization |-> Header("", "")]
    /\ token = NoToken
    /\ response = "none"

\* ---- the modifier keys of the client (TerminalClient.tsx) ----
MaxKeys == 3        \* input events of a run

\* Key data is a sequence of characters.  "ESC" is \x1b and "^A" .. "^Z" are
\* the control characters \x01 .. \x1a ("^I" is the tab, \t).
Lower == <<"a", "b", "c", "d", "e", "f", "g", "h", "i", "j", "k", "l", "m",
           "n", "o", "p", "q", "r", "s", "t", "u", "v", "w", "x", "y", "z">>

Upper == <<"A", "B", "C", "D", "E", "F", "G", "H", "I", "J", "K", "L", "M",
           "N", "O", "P", "Q", "R", "S", "T", "U", "V", "W", "X", "Y", "Z">>

Control == <<"^A", "^B", "^C", "^D", "^E", "^F", "^G", "^H", "^I", "^J",
             "^K", "^L", "^M", "^N", "^O", "^P", "^Q", "^R", "^S", "^T",
             "^U", "^V", "^W", "^X", "^Y", "^Z">>

IsIn(ch, alphabet) == \E i \in 1..Len(alphabet) : alphabet[i] = ch

IndexIn(ch, alphabet) == CHOOSE i \in 1..Len(alphabet) : alphabet[i] = ch

toLowerCase(ch) == IF IsIn(ch, Upper) THEN Lower[IndexIn(ch, Upper)] ELSE ch

toUpperCase(ch) == IF IsIn(ch, Lower) THEN Upper[IndexIn(ch, Lower)] ELSE ch

\* the keys and values of SHIFT_MAP, but its entries for the backslash, the
\* quote and the backquote
ShiftFrom == <<"1", "2", "3", "4", "5", "6", "7", "8", "9", "0", "-", "=",
               "[", "]", ";", ",", ".", "/">>

ShiftTo == <<"!", "@", "#", "$", "%", "^", "&", "*", "(", ")", "_", "+",
             "{", "}", ":", "<", ">", "?">>

\* SHIFT_MAP[ch], for a ch it has
SHIFT_MAP(ch) == ShiftTo[IndexIn(ch, ShiftFrom)]

\* the keys of the model: typed into the terminal, tapped on the modifier
\* bar (TAB and the up arrow of MODIFIER_KEYS), tapped on the CTRL-combo row
\* (C and D of CTRL_COMBOS)
TypedKeys == {<<"c">>, <<"1">>}

MODIFIER_KEYS == {<<"^I">>, <<"ESC", "[", "A">>}

CTRL_COMBOS == {<<"^C">>, <<"^D">>}

\* the value applyModifiers(data) returns
\* String.fromCharCode(ch.charCodeAt(0) - 96) is the control character of
\* the letter's place in the alphabet
CtrlApplied(data) ==
    IF Len(data) = 1 /\ IsIn(toLowerCase(data[1]), Lower)
    THEN <<Control[IndexIn(toLowerCase(data[1]), Lower)]>>
    ELSE data

ShiftApplied(data) ==
    IF Len(data) = 3 /\ data[1] = "ESC" /\ data[2] = "["
    THEN <<"ESC", "[", "1", ";", "2", data[3]>>
    ELSE IF data = <<"^I">> THEN <<"ESC", "[", "Z">>
    ELSE IF Len(data) = 1 /\ IsIn(data[1], Lower) THEN <<toUpperCase(data[1])>>
    ELSE IF Len(data) = 1 /\ IsIn(data[1], Upper) THEN data
    ELSE IF Len(data) = 1 /\ IsIn(data[1], ShiftFrom)
         THEN <<SHIFT_MAP(data[1])>>
    ELSE data

Modified(data) ==
    IF ctrlModeRef THEN CtrlApplied(data)
    ELSE IF shiftModeRef THEN ShiftApplied(data)
    ELSE data

\* mutant: setCtrl writes the ref alone
setCtrlRefOnly(on) == ctrlModeRef' = on /\ UNCHANGED ctrlMode

\* setCtrl(on) and setShift(on) write the ref and the React state
setCtrl(on) == ctrlModeRef' = on /\ ctrlMode' = on

setShift(on) == shiftModeRef' = on /\ shiftMode' = on

\* the state applyModifiers leaves: the modifier it applied is switched off
ModifiersUsed ==
    IF ctrlModeRef
    THEN setCtrl(FALSE) /\ UNCHANGED <<shiftModeRef, shiftMode>>
    ELSE IF shiftModeRef
         THEN setShift(FALSE) /\ UNCHANGED <<ctrlModeRef, ctrlMode>>
    ELSE UNCHANGED <<ctrlModeRef, ctrlMode, shiftModeRef, shiftMode>>

\* sendInput(data): socket.emit('input', data)
sendInput(data) == sent' = Append(sent, data)

\* term.onData: a key typed into the terminal
TypeKey(data) ==
    /\ Len(sent) < MaxKeys
    /\ sendInput(Modified(data))
    /\ ModifiersUsed

\* handleModifierKey for the CTRL button
TapCtrl ==
    /\ setCtrl(~ctrlModeRef)
    /\ setShift(FALSE)
    /\ UNCHANGED sent

\* handleModifierKey for the SHIFT button
TapShift ==
    /\ setShift(~shiftModeRef)
    /\ setCtrl(FALSE)
    /\ UNCHANGED sent

\* handleModifierKey for a key of the bar that has a code
PressKey(code) ==
    /\ Len(sent) < MaxKeys
    /\ sendInput(Modified(code))
    /\ ModifiersUsed

\* what handleCtrlCombo does to the modifiers: setCtrlMode(false) alone
CtrlComboModes ==
    /\ ctrlMode' = FALSE
    /\ UNCHANGED <<ctrlModeRef, shiftMode, shiftModeRef>>

\* handleCtrlCombo: the code is sent as it is
handleCtrlCombo(code) ==
    /\ Len(sent) < MaxKeys
    /\ sendInput(code)
    /\ CtrlComboModes

KeysIdle ==
    /\ ctrlMode = FALSE
    /\ ctrlModeRef = FALSE
    /\ shiftMode = FALSE
    /\ shiftModeRef = FALSE
    /\ sent = <<>>

\* ---- the client and its socket (TerminalClient.tsx) ----
\* a client event on the wire
Request(ev, id) == [ev |-> ev, id |-> id]

\* fitAddon.proposeDimensions()
Dims == [cols |-> 0, rows |-> 24]

\* the client's view is empty and its socket is not connected yet
ClientIdle ==
    /\ activeSessionRef = NULL
    /\ socketRef = NULL
    /\ uplink = [c \in Conns |-> <<>>]
    /\ downlink = <<>>
    /\ term = <<>>

\* what the server's step emits reaches the client in order, as far as it is
\* addressed to the connection the client's socket has
Delivered(ems) == SelectSeq(ems, LAMBDA m : socketRef \in m.to)

\* the socket connects (the first time, or again after a loss): the server
\* runs io.on('connection') and the client its 'connect' handler, which emits
\* list-sessions, attach to the active session if there is one, and resize
ClientConnect ==
    /\ socketRef = NULL
    /\ Connect
    /\ socketRef' = nConn + 1
    /\ uplink' = [uplink EXCEPT ![nConn + 1] =
          <<Request("list-sessions", NULL)>>
          \o (IF activeSessionRef # NULL
              THEN <<Request("attach", activeSessionRef)>>
              ELSE <<>>)
          \o <<Request("resize", NULL)>>]
    /\ UNCHANGED <<activeSessionRef, downlink, term>>

\* createSession: the user asks for a session (here: while none is active
\* and every earlier event was handled)
UserCreate ==
    /\ socketRef # NULL
    /\ activeSessionRef = NULL
    /\ uplink[socketRef] = <<>>
    /\ downlink = <<>>
    /\ uplink' = [uplink EXCEPT ![socketRef] =
                     Append(@, Request("create-session", NULL))]
    /\ UNCHANGED <<brokerVars, activeSessionRef, socketRef, downlink, term>>

\* the handler of the server for the client event r of connection c
Handle(c, r) ==
    IF r.ev = "list-sessions" THEN ListSessions(c)
    ELSE IF r.ev = "create-session" THEN CreateSession(c, "", FreshId)
    ELSE IF r.ev = "attach" THEN Attach(c, r.id)
    ELSE Resize(c, Dims)

\* the server handles the next event of connection c
ServerReceive(c) ==
    /\ c \in connected
    /\ uplink[c] # <<>>
    /\ Handle(c, Head(uplink[c]))
    /\ uplink' = [uplink EXCEPT ![c] = Tail(@)]
    /\ downlink' = downlink \o Delivered(emitted')
    /\ UNCHANGED <<activeSessionRef, socketRef, term>>

\* the handler of the client for the server event m
\* session-created: emit attach, setActiveSession(id)
\* attached: setActiveSession(id), term.clear()
\* output: term.write(data)
\* session-exited: setActiveSession(null) if it is the active session
ClientReceive ==
    /\ socketRef # NULL
    /\ downlink # <<>>
    /\ downlink' = Tail(downlink)
    /\ LET m == Head(downlink)
       IN  /\ uplink' = IF m.ev = "session-created"
                        THEN [uplink EXCEPT ![socketRef] =
                                 Append(@, Request("attach", m.id))]
                        ELSE uplink
           /\ activeSessionRef' =
                 IF m.ev \in {"session-created", "attached"} THEN m.id
                 ELSE IF m.ev = "session-exited" /\ activeSessionRef = m.id
                      THEN NULL
                 ELSE activeSessionRef
           /\ term' = IF m.ev = "attached" THEN <<>>
                      ELSE IF m.ev = "output" THEN term \o m.data
                      ELSE term
    /\ UNCHANGED <<brokerVars, socketRef>>

\* the client loses its connection (the network changes, the tab sleeps):
\* what was on the wire is gone; the server has not noticed yet
ClientLoses ==
    /\ socketRef # NULL
    /\ socketRef' = NULL
    /\ uplink' = [uplink EXCEPT ![socketRef] = <<>>]
    /\ downlink' = <<>>
    /\ UNCHANGED <<brokerVars, activeSessionRef, term>>

\* the server notices that a connection the client has lost is gone (the
\* transport closes, or pingTimeout passes) and runs its disconnect handler
ServerDisconnect(c) ==
    /\ c # socketRef
    /\ Disconnect(c)
    /\ UNCHANGED clientVars

\* a PTY callback runs; what it emits to the client's connection is on the
\* wire
PtyOutput(h) ==
    /\ OnData(h, <<"A">>)
    /\ downlink' = downlink \o Delivered(emitted')
    /\ UNCHANGED <<activeSessionRef, socketRef, uplink, term>>

PtyExit(h) ==
    /\ OnExit(h, [exitCode |-> 0, signal |-> 0])
    /\ downlink' = downlink \o Delivered(emitted')
    /\ UNCHANGED <<activeSessionRef, socketRef, uplink, term>>

\* ---- what the connections are sent (history) ----
NoAck == [obj |-> NULL, buffer |-> <<>>, len |-> 0, again |-> FALSE]

NothingSent ==
    /\ received = [c \in Conns |-> <<>>]
    /\ ack = [c \in Conns |-> NoAck]

\* the place in ems of the last attached acknowledgment to c, 0 without one
AckIndex(ems, c) ==
    LET acks == {i \in 1..Len(ems) : ems[i].ev = "attached" /\ c \in ems[i].to}
    IN  IF acks = {} THEN 0 ELSE CHOOSE i \in acks : \A j \in acks : j <= i

\* the data of the output events to c among ems, concatenated in order
RECURSIVE OutputsTo(_, _)
OutputsTo(ems, c) ==
    IF ems = <<>> THEN <<>>
    ELSE (IF Head(ems).ev = "output" /\ c \in Head(ems).to
          THEN Head(ems).data ELSE <<>>) \o OutputsTo(Tail(ems), c)

\* the history follows the step of the broker: an acknowledgment starts a
\* connection's stream anew, and records the session as the handler found it
Track ==
    /\ received' = [c \in Conns |->
          LET i == AckIndex(emitted', c)
          IN  IF i > 0
              THEN OutputsTo(SubSeq(emitted', i + 1, Len(emitted')), c)
              ELSE received[c] \o OutputsTo(emitted', c)]
    /\ ack' = [c \in Conns |->
          LET i == AckIndex(emitted', c)
          IN  IF i > 0
              THEN LET h == MapGet(sessions, emitted'[i].id)
                   IN  [obj |-> h, buffer |-> heap[h].buffer,
                        len |-> Len(out[h]),
                        again |-> heap[h].socketId = c]
              ELSE ack[c]]

\* ---- the broker ----
\* the session ids a client may name in a request, up to renaming: each id
\* drawn so far, and one that never was
RequestIds == UsedIds \cup {Cardinality(UsedIds) + 1}

Inputs == {"k"}

Sizes == {[cols |-> 0, rows |-> 24]}

\* the broker after start-up: nobody connected, no session
NoConnections ==
    /\ nConn = 0
    /\ connected = {}
    /\ currentSession = [c \in Conns |-> NULL]
    /\ nObj = 0
    /\ heap = [h \in Objs |-> NoSession]
    /\ sessions = <<>>
    /\ proc = [h \in Objs |-> "none"]
    /\ out = [h \in Objs |-> <<>>]
    /\ nData = 0
    /\ emitted = <<>>
    /\ ptyCalls = <<>>
    /\ console = <<>>

\* src/server.ts has no auth gate: the broker alone is the server started
\* without AUTH_TOKEN, before any HTTP request and any key of the client
Init ==
    /\ NoConnections
    /\ AuthOff
    /\ NoRequest
    /\ KeysIdle
    /\ ClientIdle
    /\ NothingSent

\* the handlers but create-session
Handlers ==
    \/ Connect
          /\ UNCHANGED <<authVars, keyVars, clientVars, streamVars>>
    \/ \E c \in Conns : ListSessions(c)
          /\ UNCHANGED <<authVars, keyVars, clientVars, streamVars>>
    \/ \E c \in Conns, sessionId \in RequestIds : Attach(c, sessionId)
          /\ UNCHANGED <<authVars, keyVars, clientVars, streamVars>>
    \/ \E c \in Conns, data \in Inputs : Input(c, data)
          /\ UNCHANGED <<authVars, keyVars, clientVars, streamVars>>
    \/ \E c \in Conns, size \in Sizes : Resize(c, size)
          /\ UNCHANGED <<authVars, keyVars, clientVars, streamVars>>
    \/ \E c \in Conns, sessionId \in RequestIds : KillSession(c, sessionId)
          /\ UNCHANGED <<authVars, keyVars, clientVars, streamVars>>
    \/ \E c \in Conns, id \in RequestIds, name \in NewNames :
          RenameSession(c, id, name)
          /\ UNCHANGED <<authVars, keyVars, clientVars, streamVars>>
    \/ \E c \in Conns : Disconnect(c)
          /\ UNCHANGED <<authVars, keyVars, clientVars, streamVars>>
    \/ \E h \in Objs, data \in Chunks : OnData(h, data)
          /\ UNCHANGED <<authVars, keyVars, clientVars, streamVars>>
    \/ \E h \in Objs, ev \in ExitEvents : OnExit(h, ev)
          /\ UNCHANGED <<authVars, keyVars, clientVars, streamVars>>

\* every draw of generateId differs from the earlier ones
Next ==
    \/ Handlers
    \/ \E c \in Conns, optsName \in Names :
          CreateSession(c, optsName, FreshId)
          /\ UNCHANGED <<authVars, keyVars, clientVars, streamVars>>

Spec == Init /\ [][Next]_vars

\* generateId may repeat an earlier draw; the clients only connect, create,
\* attach, kill and disconnect (the requests that read or change the table)
\* and the processes only exit
NextAnyId ==
    \/ Connect
          /\ UNCHANGED <<authVars, keyVars, clientVars, streamVars>>
    \/ \E c \in Conns, sessionId \in RequestIds : Attach(c, sessionId)
          /\ UNCHANGED <<authVars, keyVars, clientVars, streamVars>>
    \/ \E c \in Conns, sessionId \in RequestIds : KillSession(c, sessionId)
          /\ UNCHANGED <<authVars, keyVars, clientVars, streamVars>>
    \/ \E c \in Conns : Disconnect(c)
          /\ UNCHANGED <<authVars, keyVars, clientVars, streamVars>>
    \/ \E h \in Objs, ev \in ExitEvents : OnExit(h, ev)
          /\ UNCHANGED <<authVars, keyVars, clientVars, streamVars>>
    \/ \E c \in Conns, optsName \in Names :
          CreateSession(c, optsName, GenerateId)
          /\ UNCHANGED <<authVars, keyVars, clientVars, streamVars>>

SpecAnyId == Init /\ [][NextAnyId]_vars

\* ---- the HTTP auth gate alone ----
\* the server is started with or without AUTH_TOKEN and gets one request
InitToken ==
    /\ NoConnections
    /\ AUTH_TOKEN \in {"", Secret}
    /\ middleware = [handshake |-> NoHandshake, outcome |-> "none"]
    /\ req \in Requests
    /\ token = NoToken
    /\ response = "none"
    /\ KeysIdle
    /\ ClientIdle
    /\ NothingSent

NextToken ==
    \/ HttpRequest
          /\ UNCHANGED <<brokerVars, keyVars, clientVars, streamVars>>

SpecToken == InitToken /\ [][NextToken]_vars

\* ---- the broker behind the socket auth middleware ----
InitAuth ==
    /\ NoConnections
    /\ AUTH_TOKEN \in {"", Secret}
    /\ middleware = [handshake |-> NoHandshake, outcome |-> "none"]
    /\ NoRequest
    /\ KeysIdle
    /\ ClientIdle
    /\ NothingSent

\* sockets connect through the middleware; the connected ones send the
\* seven requests and disconnect
\* a request does not pass through the middleware
MiddlewareIdle ==
    /\ middleware' = [handshake |-> NoHandshake, outcome |-> "none"]
    /\ UNCHANGED <<AUTH_TOKEN, req, token, response>>

NextAuth ==
    \/ \E hs \in Handshakes : AuthConnect(hs)
          /\ UNCHANGED <<keyVars, clientVars, streamVars>>
    \/ \E c \in Conns : ListSessions(c)
          /\ MiddlewareIdle /\ UNCHANGED <<keyVars, clientVars, streamVars>>
    \/ \E c \in Conns, optsName \in Names :
          CreateSession(c, optsName, FreshId)
          /\ MiddlewareIdle /\ UNCHANGED <<keyVars, clientVars, streamVars>>
    \/ \E c \in Conns, sessionId \in RequestIds : Attach(c, sessionId)
          /\ MiddlewareIdle /\ UNCHANGED <<keyVars, clientVars, streamVars>>
    \/ \E c \in Conns, data \in Inputs : Input(c, data)
          /\ MiddlewareIdle /\ UNCHANGED <<keyVars, clientVars, streamVars>>
    \/ \E c \in Conns, size \in Sizes : Resize(c, size)
          /\ MiddlewareIdle /\ UNCHANGED <<keyVars, clientVars, streamVars>>
    \/ \E c \in Conns, sessionId \in RequestIds : KillSession(c, sessionId)
          /\ MiddlewareIdle /\ UNCHANGED <<keyVars, clientVars, streamVars>>
    \/ \E c \in Conns, id \in RequestIds, name \in NewNames :
          RenameSession(c, id, name)
          /\ MiddlewareIdle /\ UNCHANGED <<keyVars, clientVars, streamVars>>
    \/ \E c \in Conns : Disconnect(c)
          /\ MiddlewareIdle /\ UNCHANGED <<keyVars, clientVars, streamVars>>

SpecAuth == InitAuth /\ [][NextAuth]_vars

\* ---- the modifier keys of the client alone ----
NextKeys ==
    \/ TapCtrl
          /\ UNCHANGED <<brokerVars, authVars, clientVars, streamVars>>
    \/ TapShift
          /\ UNCHANGED <<brokerVars, authVars, clientVars, streamVars>>
    \/ \E data \in TypedKeys : TypeKey(data)
          /\ UNCHANGED <<brokerVars, authVars, clientVars, streamVars>>
    \/ \E code \in MODIFIER_KEYS : PressKey(code)
          /\ UNCHANGED <<brokerVars, authVars, clientVars, streamVars>>
    \/ \E code \in CTRL_COMBOS : handleCtrlCombo(code)
          /\ UNCHANGED <<brokerVars, authVars, clientVars, streamVars>>

SpecKeys == Init /\ [][NextKeys]_vars

\* ---- the modifier keys without the CTRL-combo row ----
\* taps on CTRL and SHIFT, keys of the modifier bar, typed keys
NextModifiers ==
    \/ TapCtrl
          /\ UNCHANGED <<brokerVars, authVars, clientVars, streamVars>>
    \/ TapShift
          /\ UNCHANGED <<brokerVars, authVars, clientVars, streamVars>>
    \/ \E data \in TypedKeys : TypeKey(data)
          /\ UNCHANGED <<brokerVars, authVars, clientVars, streamVars>>
    \/ \E code \in MODIFIER_KEYS : PressKey(code)
          /\ UNCHANGED <<brokerVars, authVars, clientVars, streamVars>>

SpecModifiers == Init /\ [][NextModifiers]_vars

\* ---- one client, its socket and the broker ----
NextReconnect ==
    \/ ClientConnect
          /\ UNCHANGED <<authVars, keyVars, streamVars>>
    \/ UserCreate
          /\ UNCHANGED <<authVars, keyVars, streamVars>>
    \/ \E c \in Conns : ServerReceive(c)
          /\ UNCHANGED <<authVars, keyVars, streamVars>>
    \/ ClientReceive
          /\ UNCHANGED <<authVars, keyVars, streamVars>>
    \/ ClientLoses
          /\ UNCHANGED <<authVars, keyVars, streamVars>>
    \/ \E c \in Conns : ServerDisconnect(c)
          /\ UNCHANGED <<authVars, keyVars, streamVars>>
    \/ \E h \in Objs : PtyOutput(h)
          /\ UNCHANGED <<authVars, keyVars, streamVars>>
    \/ \E h \in Objs : PtyExit(h)
          /\ UNCHANGED <<authVars, keyVars, streamVars>>

\* Node handles every event that has arrived, the socket delivers while it is
\* connected, socket.io-client reconnects (reconnectionAttempts: Infinity)
\* and the server's ping timeout closes a connection that is gone.  Nothing
\* obliges the user, the network or the shell to act.
FairReconnect ==
    /\ WF_vars(\E c \in Conns : ServerReceive(c) /\ UNCHANGED <<authVars, keyVars, streamVars>>)
    /\ WF_vars(ClientReceive /\ UNCHANGED <<authVars, keyVars, streamVars>>)
    /\ WF_vars(ClientConnect /\ UNCHANGED <<authVars, keyVars, streamVars>>)
    /\ WF_vars(\E c \in Conns : ServerDisconnect(c) /\ UNCHANGED <<authVars, keyVars, streamVars>>)

SpecReconnect == Init /\ [][NextReconnect]_vars /\ FairReconnect

\* ---- the broker with the history of what it sent ----
\* the steps that emit output or change an attachment
NextStream ==
    \/ Connect
          /\ Track /\ UNCHANGED <<authVars, keyVars, clientVars>>
    \/ \E c \in Conns : CreateSession(c, "", FreshId)
          /\ Track /\ UNCHANGED <<authVars, keyVars, clientVars>>
    \/ \E c \in Conns, sessionId \in RequestIds : Attach(c, sessionId)
          /\ Track /\ UNCHANGED <<authVars, keyVars, clientVars>>
    \/ \E c \in Conns, sessionId \in RequestIds : KillSession(c, sessionId)
          /\ Track /\ UNCHANGED <<authVars, keyVars, clientVars>>
    \/ \E c \in Conns : Disconnect(c)
          /\ Track /\ UNCHANGED <<authVars, keyVars, clientVars>>
    \/ \E h \in Objs, data \in Chunks : OnData(h, data)
          /\ Track /\ UNCHANGED <<authVars, keyVars, clientVars>>
    \/ \E h \in Objs, ev \in ExitEvents : OnExit(h, ev)
          /\ Track /\ UNCHANGED <<authVars, keyVars, clientVars>>

SpecStream == Init /\ [][NextStream]_vars

\* ======================= the claims =======================
Min(a, b) == IF a <= b THEN a ELSE b

\* the last min(Len(s), n) elements of s, in order
LastChars(s, n) ==
    [i \in 1..Min(Len(s), n) |-> s[Len(s) - Min(Len(s), n) + i]]

AliveCount == Len(AliveOf(sessions, heap))

InTable(h) == \E i \in 1..Len(sessions) : sessions[i] = h

\* the handler that ran last emitted ev as its i-th message
Emitted(i, ev) == i \in 1..Len(emitted) /\ emitted[i].ev = ev

\* C1: the number of alive sessions in the table never exceeds MAX_SESSIONS,
\* and a create-session is rejected (an error to the requester alone, no
\* session created, the table as it was) exactly when that number equals
\* MAX_SESSIONS when it is handled; otherwise, the shell having been spawned,
\* it inserts a new alive session.
C1_Capacity ==
    /\ [](AliveCount <= MAX_SESSIONS)
    /\ [][\A c \in Conns, optsName \in Names :
            CreateSession(c, optsName, FreshId) =>
              /\ (AliveCount = MAX_SESSIONS) <=>
                    /\ emitted' = <<[Msg({c}, "error") EXCEPT
                                       !.text = CapacityError]>>
                    /\ nObj' = nObj
                    /\ sessions' = sessions
                    /\ heap' = heap
              /\ (AliveCount # MAX_SESSIONS /\ ptyCalls'[1].call = "spawn") <=>
                    /\ nObj' = nObj + 1
                    /\ heap'[nObj'].alive
                    /\ sessions' = Append(sessions, nObj')
                    /\ \A i \in 1..Len(emitted') : emitted'[i].ev # "error"
         ]_vars

\* C1 witness: the table was full, a session was killed (its process has not
\* exited yet) and the create that followed was accepted.
C1_Witness ==
    /\ Emitted(1, "session-created")
    /\ nObj = MAX_SESSIONS + 1
    /\ AliveCount = MAX_SESSIONS
    /\ \E h \in 1..nObj : ~heap[h].alive /\ proc[h] = "running"

\* connection X was displaced from the session it points to: X's last attach
\* was to that session, and a later attach gave the session to another socket
Displaced(X) ==
    /\ currentSession[X] # NULL
    /\ heap[currentSession[X]].alive
    /\ heap[currentSession[X]].socketId # NULL
    /\ heap[currentSession[X]].socketId # X

\* C2: once connection Y has attached to the session S that connection X was
\* attached to, an input of X (X not having attached again) is not written
\* to S's process and yields no error message to X.
C2_DisplacedInputDropped ==
    [][\A X \in Conns, data \in Inputs :
          (Displaced(X) /\ Input(X, data)) =>
              /\ \A i \in 1..Len(ptyCalls') :
                    ~(ptyCalls'[i].call = "write" /\
                      ptyCalls'[i].obj = currentSession[X])
              /\ emitted' = <<>>
      ]_vars

\* C3: while session S is alive and attached to connection Y, its attachment
\* changes only when Y disconnects, Y attaches to another session, or
\* another connection attaches to S.
C3_AttachmentStable ==
    [][\A h \in Objs, Y \in Conns :
          ( /\ h <= nObj
            /\ heap[h].alive /\ InTable(h)
            /\ heap[h].socketId = Y
            /\ heap'[h].alive
            /\ heap'[h].socketId # Y ) =>
              \/ Disconnect(Y)
              \/ \E sid \in RequestIds :
                    sid # heap[h].id /\ AttachDone(Y, sid)
              \/ \E Z \in Conns : Z # Y /\ AttachDone(Z, heap[h].id)
      ]_vars

\* C10: for every connected connection X and every alive session S, X's
\* currentSession is S if and only if S's socketId is X.
C10_PointersMirror ==
    \A X \in connected, h \in 1..nObj :
        heap[h].alive => (currentSession[X] = h <=> heap[h].socketId = X)

\* C4: when connection Y attaches to an alive session S whose attachment is
\* another connection X, then afterwards S's attachment is Y, X is the
\* attachment of no session, and the detached notification to X is emitted
\* before the attached acknowledgment to Y.
C4_TakeOver ==
    [][\A Y \in Conns, sid \in RequestIds :
          LET h == MapGet(sessions, sid)
              X == heap[h].socketId
          IN  (AttachDone(Y, sid) /\ X # NULL /\ X # Y) =>
                /\ heap'[h].socketId = Y
                /\ \A o \in 1..nObj : heap'[o].socketId # X
                /\ \E i, j \in 1..Len(emitted') :
                      /\ i < j
                      /\ emitted'[i].ev = "detached"
                      /\ emitted'[i].to = {X}
                      /\ emitted'[i].id = sid
                      /\ emitted'[j].ev = "attached"
                      /\ emitted'[j].to = {Y}
                      /\ emitted'[j].id = sid
      ]_vars

\* C4 witness: an attach has just taken a session over from its holder.
C4_Witness ==
    /\ Emitted(1, "detached")
    /\ Emitted(2, "attached")
    /\ emitted[1].to # emitted[2].to
    /\ emitted[1].to # {}

\* C5: a successful attach to session S sends the requester the attached
\* acknowledgment with S's id and name and then, if S's buffer is not empty,
\* the whole buffer as exactly one output event, and nothing else; chunks
\* the process emits later are emitted by later handlers.  Output "A" then
\* "B" is replayed as the one chunk "AB".
C5_AckThenReplay ==
    \A i \in 1..Len(emitted) :
        emitted[i].ev = "attached" =>
            LET h == MapGet(sessions, emitted[i].id)
                c == CHOOSE c \in Conns : emitted[i].to = {c}
                rest == SubSeq(emitted, i + 1, Len(emitted))
            IN  /\ \E c1 \in Conns : emitted[i].to = {c1}
                /\ h # NULL
                /\ heap[h].socketId = c
                /\ emitted[i].id = heap[h].id
                /\ emitted[i].name = heap[h].name
                /\ \A k \in 1..(i - 1) : c \notin emitted[k].to
                /\ rest = IF heap[h].buffer # <<>>
                          THEN <<[Msg({c}, "output") EXCEPT
                                    !.data = heap[h].buffer]>>
                          ELSE <<>>
                /\ heap[h].buffer = LastChars(out[h], SCROLLBACK_BUFFER_SIZE)

\* C5 witness: the process emitted "A" and then "B", the first connection is
\* gone, and the attach of a second one replayed "AB" as one chunk after the
\* acknowledgment.
C5_Witness ==
    /\ Emitted(1, "attached")
    /\ Emitted(2, "output")
    /\ emitted[2].data = <<"A", "B">>
    /\ nData = 2
    /\ Len(emitted) = 2
    /\ nConn = 2
    /\ connected = {2}
    /\ emitted[1].to = {2}

\* C6: after every chunk a session's buffer is at most SCROLLBACK_BUFFER_SIZE
\* long and holds exactly the last min(total, SCROLLBACK_BUFFER_SIZE)
\* characters its process has emitted, in order.
C6_BufferIsTail ==
    \A h \in 1..nObj :
        /\ Len(heap[h].buffer) <= SCROLLBACK_BUFFER_SIZE
        /\ heap[h].buffer = LastChars(out[h], SCROLLBACK_BUFFER_SIZE)

\* C6 witness: one chunk longer than the scrollback was cut to its tail, and
\* a later chunk pushed the oldest character out.
C6_Witness ==
    \E h \in 1..nObj :
        /\ out[h] = <<"0", "1", "2", "3", "4", "A">>
        /\ Len(out[h]) > SCROLLBACK_BUFFER_SIZE + 1
        /\ heap[h].buffer = SubSeq(out[h], Len(out[h]) -
                                SCROLLBACK_BUFFER_SIZE + 1, Len(out[h]))

C8_DisconnectKeepsSessions ==
    [][\A c \in Conns :
          Disconnect(c) =>
             /\ sessions' = sessions
             /\ ptyCalls' = <<>>
             /\ proc' = proc
             /\ \A h \in Objs :
                   /\ heap'[h].buffer = heap[h].buffer
                   /\ heap'[h].name = heap[h].name
                   /\ heap'[h].alive = heap[h].alive
                   /\ heap'[h].id = heap[h].id
             /\ LET cur == currentSession[c]
                IN  (cur # NULL /\ heap[cur].alive /\ InTable(cur)) =>
                       \E k \in 1..Len(SessionListOf(sessions', heap')) :
                           SessionListOf(sessions', heap')[k].id = heap[cur].id
      ]_vars

\* C8 witness: the only connection there was has just disconnected, and a
\* session with buffered output is still alive in the table, unattached.
C8_Witness ==
    /\ Len(console) = 1
    /\ console[1].text = "Socket disconnected (sessions preserved)"
    /\ connected = {}
    /\ \E h \in 1..nObj :
          /\ heap[h].alive /\ InTable(h) /\ proc[h] = "running"
          /\ heap[h].buffer # <<>>
          /\ heap[h].socketId = NULL

\* C9: every chunk a session's process emits is appended to the session's
\* buffer (cut to the scrollback size) whether or not a socket is attached,
\* so the replay of a successful attach is the tail of everything the
\* process has emitted, attached or not.
C9_AlwaysBuffered ==
    /\ [][\A h \in Objs, data \in Chunks :
            OnData(h, data) =>
               heap'[h].buffer =
                  LastChars(heap[h].buffer \o data, SCROLLBACK_BUFFER_SIZE)
         ]_vars
    /\ [](\A i \in 1..Len(emitted) :
            emitted[i].ev = "attached" =>
               LET h == MapGet(sessions, emitted[i].id)
               IN  out[h] # <<>> =>
                     /\ i + 1 = Len(emitted)
                     /\ emitted[i + 1].ev = "output"
                     /\ emitted[i + 1].to = emitted[i].to
                     /\ emitted[i + 1].data =
                           LastChars(out[h], SCROLLBACK_BUFFER_SIZE))

\* C9 witness: the one session there is holds output although no socket was
\* ever attached to it (the one connection there is points to no session).
C9_Witness ==
    /\ nObj = 1 /\ nConn = 1 /\ connected = {1}
    /\ currentSession[1] = NULL
    /\ heap[1].alive
    /\ heap[1].socketId = NULL
    /\ heap[1].buffer = <<"A", "B">>

\* the session objects whose socketId is connection X
HeldBy(X) == {h \in 1..nObj : heap[h].socketId = X}

\* C11: a connection is the socketId of at most one session; when a
\* connection attached to session T attaches to a different session S, the
\* same attach step clears T's socketId and sets S's socketId.
C11_OneSessionPerConnection ==
    /\ [](\A X \in Conns : Cardinality(HeldBy(X)) <= 1)
    /\ [][\A X \in Conns, sid \in RequestIds :
            AttachDone(X, sid) =>
               \A T \in HeldBy(X) :
                  heap[T].id # sid =>
                     /\ heap'[T].socketId = NULL
                     /\ heap'[MapGet(sessions, sid)].socketId = X
         ]_vars

\* C11 witness: nobody ever disconnected and there are two sessions, S and
\* T.  Connection 2 still points to T, which is alive and unattached, so
\* connection 1 took T over and released it when attaching to S; connection
\* 1 has just attached to S.
C11_Witness ==
    /\ Len(console) = 1
    /\ console[1].text = "Socket attached to session"
    /\ console[1].socketId = 1
    /\ nConn = 2 /\ connected = {1, 2}
    /\ nObj = 2
    /\ \E S, T \in 1..nObj :
          /\ S # T
          /\ currentSession[1] = S /\ heap[S].socketId = 1
          /\ heap[S].id = console[1].id
          /\ currentSession[2] = T
          /\ heap[T].alive /\ InTable(T) /\ heap[T].socketId = NULL

\* C12: a chunk of live output of session S is emitted to exactly the one
\* connection that is S's socketId when the chunk is handled, and to nobody
\* when S has none; every output event (live or replay) goes to a single
\* connection that is the socketId of a session whose output it carries.
C12_OutputToHolderOnly ==
    /\ [][\A h \in Objs, data \in Chunks :
            OnData(h, data) =>
               IF heap[h].socketId = NULL
               THEN emitted' = <<>>
               ELSE /\ Len(emitted') = 1
                    /\ emitted'[1].ev = "output"
                    /\ emitted'[1].data = data
                    /\ emitted'[1].to = {heap[h].socketId}
                    /\ heap[h].socketId \in connected
         ]_vars
    /\ [](\A i \in 1..Len(emitted) :
            emitted[i].ev = "output" =>
               \E c \in connected :
                  /\ emitted[i].to = {c}
                  /\ \E h \in HeldBy(c) :
                        /\ Len(emitted[i].data) <= Len(out[h])
                        /\ emitted[i].data =
                              LastChars(out[h], Len(emitted[i].data)))

\* C12 witness: two connections point to the same session, the second took
\* it over, and a live chunk has just been emitted to the second alone.
C12_Witness ==
    /\ connected = {1, 2}
    /\ console = <<>>
    /\ Len(emitted) = 1
    /\ emitted[1].ev = "output"
    /\ emitted[1].to = {2}
    /\ currentSession[1] # NULL
    /\ currentSession[1] = currentSession[2]
    /\ heap[currentSession[1]].socketId = 2

\* C13: between handlers a session object is in the table if and only if
\* its alive flag is true; an exit event removes the session from the table
\* in the same step, and no list emitted names a session that is not alive
\* in the table.
C13_InTableIffAlive ==
    /\ [](\A h \in 1..nObj : InTable(h) <=> heap[h].alive)
    /\ [][\A h \in Objs, ev \in ExitEvents :
            OnExit(h, ev) =>
               /\ \A i \in 1..Len(sessions') : sessions'[i] # h
               /\ ~heap'[h].alive
         ]_vars
    /\ [](\A i \in 1..Len(emitted) :
            emitted[i].ev = "sessions" =>
               \A k \in 1..Len(emitted[i].list) :
                  \E h \in 1..nObj :
                     /\ heap[h].id = emitted[i].list[k].id
                     /\ heap[h].alive
                     /\ InTable(h))

\* C13 witness: a session that was not killed has just exited; the list
\* broadcast in that step names the other session, which is still alive, and
\* not the one that exited.
C13_Witness ==
    /\ Len(console) = 1
    /\ console[1].text = "Session exited"
    /\ Len(emitted) = 2
    /\ emitted[1].ev = "session-exited"
    /\ emitted[2].ev = "sessions"
    /\ Len(emitted[2].list) = 1
    /\ emitted[2].list[1].id # console[1].id
    /\ \E h \in 1..nObj :
          heap[h].id = console[1].id /\ ~heap[h].alive /\ ~InTable(h)

\* C14: the id create-session gives a session differs from the id of every
\* session created earlier, alive or removed.
C14_IdsNeverReused ==
    \A h1, h2 \in 1..nObj : h1 # h2 => heap[h1].id # heap[h2].id

\* C15: kill-session is idempotent.  A kill of an id in the table makes one
\* shell.kill call and removes that one entry, after which the id is not in
\* the table; a kill of an id that is not in the table (never drawn, or
\* killed or exited before) changes nothing and emits nothing; and the id of
\* a session that is no longer alive is never in the table again, so a
\* second kill of the same id is always of the latter kind.
C15_KillIdempotent ==
    /\ [][\A c \in Conns, sid \in RequestIds :
            KillSession(c, sid) =>
               IF \E i \in 1..Len(sessions) : heap[sessions[i]].id = sid
               THEN LET h == MapGet(sessions, sid)
                    IN  /\ ptyCalls' = <<PtyCall("kill", h)>>
                        /\ Len(sessions') = Len(sessions) - 1
                        /\ \A i \in 1..Len(sessions') :
                              heap'[sessions'[i]].id # sid
                        /\ ~heap'[h].alive
               ELSE /\ UNCHANGED <<nConn, connected, currentSession, nObj,
                                   heap, sessions, proc, out, nData>>
                    /\ emitted' = <<>>
                    /\ ptyCalls' = <<>>
                    /\ console' = <<>>
         ]_vars
    /\ [](\A h \in 1..nObj :
            ~heap[h].alive =>
               \A i \in 1..Len(sessions) :
                  heap[sessions[i]].id # heap[h].id)

\* C15 witness: a session was killed and its process has not exited yet;
\* the handler that ran after the kill (such as a second kill of the same
\* id) emitted nothing, called nothing and printed nothing.
C15_Witness ==
    /\ emitted = <<>> /\ ptyCalls = <<>> /\ console = <<>>
    /\ nObj = 1
    /\ ~heap[1].alive
    /\ proc[1] = "running"
    /\ sessions = <<>>
    /\ connected # {}

\* C16: when a kill-session removes a session whose socketId is connection
\* X, the handler sends X a notification that names the session (apart from
\* the list broadcast every connection gets).
C16_KillNotifiesHolder ==
    [][\A c \in Conns, sid \in RequestIds :
          LET h == MapGet(sessions, sid)
          IN  (KillSession(c, sid) /\ h # NULL) =>
                 (heap[h].socketId # NULL =>
                    \E i \in 1..Len(emitted') :
                       /\ heap[h].socketId \in emitted'[i].to
                       /\ emitted'[i].ev # "sessions"
                       /\ emitted'[i].id = sid)
      ]_vars

\* C17: when an alive session whose socketId is connection X exits, the
\* exit handler sends X session-exited with the session's id, exit code and
\* signal, and then sends every connection a list that no longer names the
\* session.
C17_ExitNotifiesHolder ==
    [][\A h \in Objs, ev \in ExitEvents :
          (OnExit(h, ev) /\ heap[h].alive /\ heap[h].socketId # NULL) =>
             /\ heap[h].socketId \in connected
             /\ Len(emitted') = 2
             /\ emitted'[1] = [Msg({heap[h].socketId}, "session-exited")
                                 EXCEPT !.id = heap[h].id, !.exit = ev]
             /\ emitted'[2].ev = "sessions"
             /\ emitted'[2].to = connected
             /\ \A k \in 1..Len(emitted'[2].list) :
                   emitted'[2].list[k].id # heap[h].id
             /\ \A i \in 1..Len(sessions') : sessions'[i] # h
      ]_vars

\* C17 witness: an attached session has just exited with code 1, signal 1;
\* its holder was told, then the list went to both connections.
C17_Witness ==
    /\ Len(emitted) = 2
    /\ emitted[1].ev = "session-exited"
    /\ emitted[1].exit = [exitCode |-> 1, signal |-> 1]
    /\ emitted[1].to = {2}
    /\ emitted[2].ev = "sessions"
    /\ emitted[2].to = {1, 2}

\* C18: a session removed by kill-session causes no session-exited message:
\* a step that emits session-exited is neither a kill-session nor the exit
\* event of a session that was killed.
C18_KilledExitsSilently ==
    [][(\E i \in 1..Len(emitted') : emitted'[i].ev = "session-exited") =>
          /\ \A c \in Conns, sid \in RequestIds : ~KillSession(c, sid)
          /\ \A h \in Objs, ev \in ExitEvents :
                ~(OnExit(h, ev) /\ ~heap[h].alive)
      ]_vars

\* C18 witness: the process of a killed session has just exited; connection
\* 1, which was attached to it and did not send the kill, is still connected
\* and still points to it, and only the list was emitted.
C18_Witness ==
    /\ Len(console) = 1
    /\ console[1].text = "Session exited"
    /\ Len(emitted) = 1
    /\ emitted[1].ev = "sessions"
    /\ nConn = 2 /\ connected = {1, 2}
    /\ nObj = 1
    /\ currentSession[1] = 1
    /\ currentSession[2] = NULL
    /\ proc[1] = "exited"

\* the first message of the step is one that an attach can send first
AttachAnswer ==
    /\ emitted' # <<>>
    /\ emitted'[1].ev \in {"error", "detached", "attached"}

\* C19: an attach request naming an id with no alive session in the table
\* sends one error to the requester alone and leaves every currentSession,
\* every session and the table unchanged; an attach (a step that always
\* answers with error, detached or attached) is answered this way exactly in
\* that case.
C19_AttachNotFound ==
    [][AttachAnswer =>
         \A c \in connected, sid \in Ids :
            Attach(c, sid) =>
               ( (~\E i \in 1..Len(sessions) :
                      /\ heap[sessions[i]].id = sid
                      /\ heap[sessions[i]].alive)
                 <=>
                 ( /\ emitted' = <<[Msg({c}, "error") EXCEPT
                                      !.text = "Session " \o ToString(sid) \o
                                               " not found"]>>
                   /\ currentSession' = currentSession
                   /\ heap' = heap
                   /\ sessions' = sessions
                   /\ ptyCalls' = <<>> ) )
      ]_vars

\* C19 witness: a connection attached to a session has just been refused an
\* attach to another id and is still attached.
C19_Witness ==
    /\ Len(emitted) = 1
    /\ emitted[1].ev = "error"
    /\ \E c \in connected :
          /\ emitted[1].to = {c}
          /\ currentSession[c] # NULL
          /\ heap[currentSession[c]].alive
          /\ heap[currentSession[c]].socketId = c
          /\ emitted[1].text #
                "Session " \o ToString(heap[currentSession[c]].id) \o
                " not found"
          /\ emitted[1].text # CapacityError

\* C20: when pty.spawn fails during create-session, the requester is sent
\* an error message and no session is inserted.
C20_SpawnFailureReported ==
    [][\A c \in Conns :
          CreateSpawnFails(c) =>
             /\ \E i \in 1..Len(emitted') :
                   emitted'[i].ev = "error" /\ emitted'[i].to = {c}
             /\ sessions' = sessions
      ]_vars

\* the step answers with an error first
ErrorAnswer == emitted' # <<>> /\ emitted'[1].ev = "error"

\* C21: a create-session rejected at MAX_SESSIONS spawns nothing, inserts
\* nothing, changes no session and no currentSession, and sends exactly one
\* message: the error naming the limit, to the requester alone (so no list
\* is broadcast).
C21_RejectedCreateIsInert ==
    [][ErrorAnswer =>
         \A c \in Conns :
            CreateRejected(c) =>
               /\ ptyCalls' = <<>>
               /\ nObj' = nObj
               /\ sessions' = sessions
               /\ heap' = heap
               /\ proc' = proc
               /\ currentSession' = currentSession
               /\ emitted' = <<[Msg({c}, "error") EXCEPT
                                  !.text = "Max " \o ToString(MAX_SESSIONS) \o
                                           " sessions. Kill one first."]>>
      ]_vars

\* C21 witness: with two connections, the second has just been refused a
\* create at a full table; one session is attached to the first connection.
C21_Witness ==
    /\ connected = {1, 2}
    /\ Len(emitted) = 1
    /\ emitted[1].ev = "error"
    /\ emitted[1].to = {2}
    /\ emitted[1].text = CapacityError
    /\ AliveCount = MAX_SESSIONS
    /\ \E h \in 1..nObj : heap[h].alive /\ heap[h].socketId = 1

\* C22: a resize of a connection that was displaced from its session by
\* another connection's attach reaches no process and yields no message.
C22_DisplacedResizeDropped ==
    [][\A X \in Conns, size \in Sizes :
          (Displaced(X) /\ Resize(X, size)) =>
              /\ ptyCalls' = <<>>
              /\ emitted' = <<>>
      ]_vars

\* C23: each chunk of a session with an attached connection is emitted to
\* that connection in the step in which the process produced it, as one
\* output event carrying exactly that chunk, the last one of the session's
\* output so far; so the chunks reach the connection in production order.
C23_OutputInOrder ==
    [][\A h \in Objs :
          (out'[h] # out[h] /\ heap[h].socketId # NULL) =>
             /\ Len(emitted') = 1
             /\ emitted'[1].ev = "output"
             /\ emitted'[1].to = {heap[h].socketId}
             /\ out'[h] = out[h] \o emitted'[1].data
             /\ \A g \in Objs : g # h => out'[g] = out[g]
      ]_vars

\* C23 witness: of two sessions, the attached one produced "A" and then
\* "B", which has just been sent to its connection.
C23_Witness ==
    /\ nObj = 2 /\ nConn = 1 /\ connected = {1}
    /\ nData = 2
    /\ Len(emitted) = 1
    /\ emitted[1].ev = "output"
    /\ emitted[1].data = <<"B">>
    /\ emitted[1].to = {1}
    /\ \E h \in 1..nObj :
          /\ heap[h].socketId = 1
          /\ out[h] = <<"A", "B">>

\* the alive session objects, in creation order
AliveInCreationOrder ==
    SelectSeq([h \in 1..nObj |-> h], LAMBDA h : heap[h].alive)

\* the list entry of session object h
ListEntry(h) ==
    [id |-> heap[h].id, name |-> heap[h].name,
     connected |-> heap[h].socketId # NULL, createdAt |-> heap[h].createdAt]

\* the step changed the table or a name, or a process exited
TableChanged ==
    \/ sessions' # sessions
    \/ \E h \in Objs : heap'[h].name # heap[h].name
    \/ \E h \in Objs : proc'[h] = "exited" /\ proc[h] # "exited"
    \/ (ptyCalls' # <<>> /\ ptyCalls'[1].call = "kill")

\* C24: a successful create-session, a kill-session and a rename-session of
\* an existing session, and a process exit each end by sending every
\* connected socket a sessions list that shows the table as the step leaves
\* it.
C24_BroadcastAfterChange ==
    [][( \/ TableChanged
         \/ \E c \in Conns, id \in RequestIds, name \in NewNames :
               RenameSession(c, id, name) /\
               (\E i \in 1..Len(sessions) : heap[sessions[i]].id = id) ) =>
          /\ emitted' # <<>>
          /\ LET m == emitted'[Len(emitted')]
             IN  /\ m.ev = "sessions"
                 /\ m.to = connected'
                 /\ Len(m.list) = Len(sessions')
                 /\ \A k \in 1..Len(m.list) :
                       /\ m.list[k].id = heap'[sessions'[k]].id
                       /\ m.list[k].name = heap'[sessions'[k]].name
                       /\ m.list[k].connected =
                             (heap'[sessions'[k]].socketId # NULL)
      ]_vars

\* C24 witness: with two connections, a rename has just been broadcast to
\* both.
C24_Witness ==
    /\ connected = {1, 2}
    /\ ptyCalls = <<>> /\ console = <<>>
    /\ Len(emitted) = 1
    /\ emitted[1].ev = "sessions"
    /\ emitted[1].to = {1, 2}
    /\ Len(emitted[1].list) = 2
    /\ emitted[1].list[1].name # "x"
    /\ emitted[1].list[2].name = "x"

\* C25: every sessions list emitted (by list-sessions or a broadcast) holds
\* exactly the alive sessions, once each, in creation order, and an entry's
\* connected flag is true if and only if the session's socketId is set.
C25_ListIsAliveInOrder ==
    \A i \in 1..Len(emitted) :
        emitted[i].ev = "sessions" =>
            /\ Len(emitted[i].list) = Len(AliveInCreationOrder)
            /\ \A k \in 1..Len(emitted[i].list) :
                  emitted[i].list[k] = ListEntry(AliveInCreationOrder[k])

\* C25 witness: the first of three sessions is gone; the list just emitted
\* names the second, which is attached, and then the third, which is not.
C25_Witness ==
    /\ nObj = 3
    /\ ~heap[1].alive
    /\ \E i \in 1..Len(emitted) :
          /\ emitted[i].ev = "sessions"
          /\ Len(emitted[i].list) = 2
          /\ emitted[i].list[1].id = heap[2].id
          /\ emitted[i].list[1].connected
          /\ emitted[i].list[2].id = heap[3].id
          /\ ~emitted[i].list[2].connected

\* C26: a session created without a name is named "Shell N", N being one
\* more than the number of sessions alive when the create is handled.
C26_DefaultName ==
    [][\A c \in Conns :
          (CreateSession(c, "", FreshId) /\ nObj' = nObj + 1) =>
             heap'[nObj'].name = "Shell " \o ToString(AliveCount + 1)
      ]_vars

\* C26 witness: after a kill, a create without a name has just produced a
\* second alive session named "Shell 2".
C26_Witness ==
    /\ Emitted(1, "session-created")
    /\ emitted[1].name = "Shell 2"
    /\ \E h \in 1..nObj :
          /\ h # nObj
          /\ heap[h].alive
          /\ heap[h].name = "Shell 2"

\* the token the documented order picks: the Authorization Bearer header,
\* then the rt_token cookie, then the ?token query parameter
HeaderCookieQuery(r) ==
    IF BearerToken(r.authorization) # NoToken THEN BearerToken(r.authorization)
    ELSE IF CookieToken(r.cookie) # NoToken THEN CookieToken(r.cookie)
    ELSE IF Truthy(r.query) THEN r.query
    ELSE NoToken

\* the handshake carries the token t in one of its three places
HandshakeCarries(hs, t) ==
    \/ hs.auth = Str(t)
    \/ hs.query = Str(t)
    \/ CookieToken(hs.cookie) = Str(t)

\* connection c makes one of the seven requests, or disconnects
RequestOf(c) ==
    \/ ListSessions(c)
    \/ \E optsName \in Names : CreateSession(c, optsName, FreshId)
    \/ \E sessionId \in RequestIds : Attach(c, sessionId)
    \/ \E data \in Inputs : Input(c, data)
    \/ \E size \in Sizes : Resize(c, size)
    \/ \E sessionId \in RequestIds : KillSession(c, sessionId)
    \/ \E id \in RequestIds, name \in NewNames : RenameSession(c, id, name)
    \/ Disconnect(c)

\* C28: every step that sends a key, typed, pressed on the modifier bar or
\* chosen from the CTRL-combo row, leaves CTRL and SHIFT inactive, in the
\* state the UI shows and in the state applied to the next key, so the next
\* key typed is sent as typed.
C28_StickyForOneKey ==
    [][Len(sent') > Len(sent) =>
          /\ ~ctrlModeRef' /\ ~shiftModeRef'
          /\ ~ctrlMode' /\ ~shiftMode']_vars

C30_HeaderCookieQuery ==
    response # "none" => token = HeaderCookieQuery(req)

\* the session of id `id` is in the table and alive
AliveId(id) == MapHas(sessions, id) /\ heap[MapGet(sessions, id)].alive

\* the client's socket has reconnected as connection c, the client's active
\* session is id, still alive, and its attach request is on the wire
Reattaching(c, id) ==
    /\ socketRef = c
    /\ c > 1
    /\ activeSessionRef = id
    /\ AliveId(id)
    /\ \E i \in 1..Len(uplink[c]) : uplink[c][i] = Request("attach", id)

\* the client's connection c is the attachment of session id, the client has
\* handled everything sent to it, and its terminal ends with the session's
\* buffer
Reattached(c, id) ==
    /\ socketRef = c
    /\ AliveId(id)
    /\ heap[MapGet(sessions, id)].socketId = c
    /\ downlink = <<>>
    /\ Len(term) >= Len(heap[MapGet(sessions, id)].buffer)
    /\ LastChars(term, Len(heap[MapGet(sessions, id)].buffer))
          = heap[MapGet(sessions, id)].buffer

\* C27: whenever the client's socket connects while a session is active,
\* the client requests attach to it on the new connection; and once the
\* client has reconnected with its active session S alive, then eventually its
\* connection is S's attachment and its terminal holds S's buffer, unless S
\* dies or the client loses the connection again.  (The model has no other
\* client, so no other connection attaches to S.)
C27_ReconnectReattaches ==
    /\ [][(socketRef = NULL /\ socketRef' # NULL /\ activeSessionRef # NULL) =>
             \E i \in 1..Len(uplink'[socketRef']) :
                uplink'[socketRef'][i] = Request("attach", activeSessionRef)]_vars
    /\ \A c \in Conns, id \in Ids :
          Reattaching(c, id) ~>
             (Reattached(c, id) \/ socketRef # c \/ ~AliveId(id))

\* C31: in every state the socketId of an alive session is a connection that
\* is connected and whose currentSession is that session; and no session
\* object, alive or not, has the socketId of a connection that has
\* disconnected.
C31_AttachmentIsLive ==
    /\ \A h \in 1..nObj :
          (heap[h].alive /\ heap[h].socketId # NULL) =>
              /\ heap[h].socketId \in connected
              /\ currentSession[heap[h].socketId] = h
    /\ \A h \in 1..nObj :
          heap[h].socketId # NULL => heap[h].socketId \in connected

\* C31 witness: connection 1 has just disconnected, and an alive session is
\* attached to connection 2, which stays connected and points to it.
C31_Witness ==
    /\ nConn = 2 /\ connected = {2}
    /\ Len(console) = 1
    /\ console[1].text = "Socket disconnected (sessions preserved)"
    /\ console[1].socketId = 1
    /\ currentSession[2] # NULL
    /\ heap[currentSession[2]].alive
    /\ heap[currentSession[2]].socketId = 2

\* session object h has been removed: it was created and is no longer in
\* the table
Removed(h) == h \in 1..nObj /\ ~InTable(h)

\* C33: no step writes input to, or resizes, the process of a session that
\* kill-session or the exit event has removed from the table, whichever
\* connection asks, also one whose currentSession still is the removed
\* session.
C33_NoWriteAfterRemoval ==
    [][\A i \in 1..Len(ptyCalls') :
          ptyCalls'[i].call \in {"write", "resize"} =>
              /\ ~Removed(ptyCalls'[i].obj)
              /\ heap[ptyCalls'[i].obj].alive]_vars

\* C33 witness: connection 1 still points to a session that was killed by
\* connection 2 (which never pointed to it) and has just sent an input or a
\* resize, which reached no process.
C33_Witness ==
    /\ connected = {1, 2}
    /\ currentSession[1] # NULL
    /\ currentSession[2] = NULL
    /\ Removed(currentSession[1])
    /\ proc[currentSession[1]] = "running"
    /\ nObj = 1
    /\ emitted = <<>> /\ ptyCalls = <<>> /\ console = <<>>

\* the spawned processes whose exit event has not been delivered
Running == {h \in 1..nObj : proc[h] = "running"}

\* C34: the number of spawned shell processes whose exit event has not been
\* delivered never exceeds MAX_SESSIONS.
C34_ProcessesBounded == Cardinality(Running) <= MAX_SESSIONS

\* C35: with AUTH_TOKEN set, a request whose token differs from AUTH_TOKEN,
\* in length or in content, is answered with the login page: checkToken
\* yields false and raises no error.
C35_WrongTokenIsRefused ==
    ( /\ AUTH_TOKEN # ""
      /\ response # "none"
      /\ Truthy(token)
      /\ token # Str(AUTH_TOKEN) ) => response = "login"

DropFirst(s, n) == SubSeq(s, n + 1, Len(s))

\* C32: while connection Y is the socketId of session S, Y's last attached
\* acknowledgment was for S, and the output events sent to Y since that
\* acknowledgment, concatenated, are S's buffer as the attach found it
\* followed by exactly what S's process has emitted since, each chunk once.
C32_ReplayThenLive ==
    \A Y \in Conns, h \in 1..nObj :
        heap[h].socketId = Y =>
            /\ ack[Y].obj = h
            /\ received[Y] = ack[Y].buffer \o DropFirst(out[h], ack[Y].len)

\* C32 witness: a connection attached to a session whose buffer had
\* overflowed, got the replay, and then a live chunk.
C32_Witness ==
    \E Y \in connected, h \in 1..nObj :
        /\ heap[h].socketId = Y
        /\ ack[Y].obj = h
        /\ ack[Y].len > SCROLLBACK_BUFFER_SIZE
        /\ Len(ack[Y].buffer) = SCROLLBACK_BUFFER_SIZE
        /\ Len(out[h]) > ack[Y].len
        /\ Len(emitted) = 1 /\ emitted[1].ev = "output"

\* C36: when a connection attaches to the session it is the socketId of, no
\* detached message is emitted, no session's socketId changes, and the
\* connection alone is sent the attached acknowledgment followed by the
\* whole buffer (nothing more when the buffer is empty).
C36_ReattachSelf ==
    [][\A c \in Conns, sid \in RequestIds :
          ( /\ console' # <<>>
            /\ console'[1].text = "Socket attached to session"
            /\ MapHas(sessions, sid)
            /\ heap[MapGet(sessions, sid)].socketId = c
            /\ AttachDone(c, sid) ) =>
              LET h == MapGet(sessions, sid)
              IN  /\ \A i \in 1..Len(emitted') : emitted'[i].ev # "detached"
                  /\ \A g \in Objs : heap'[g].socketId = heap[g].socketId
                  /\ Len(emitted') = IF heap[h].buffer = <<>> THEN 1 ELSE 2
                  /\ emitted'[1].ev = "attached"
                  /\ emitted'[1].id = sid
                  /\ emitted'[1].to = {c}
                  /\ heap[h].buffer # <<>> =>
                        /\ emitted'[2].ev = "output"
                        /\ emitted'[2].to = {c}
                        /\ emitted'[2].data = heap[h].buffer
                  /\ received'[c] = heap[h].buffer
      ]_vars

\* C36 witness: a connection has just attached again to the session it was
\* attached to, while another session is attached to another connection,
\* and was replayed a buffer that holds a chunk it had got live before.
C36_Witness ==
    \E c \in connected, d \in connected :
        /\ c # d
        /\ Len(console) = 1
        /\ console[1].text = "Socket attached to session"
        /\ console[1].socketId = c
        /\ ack[c].again
        /\ ack[c].buffer # <<>>
        /\ received[c] = ack[c].buffer
        /\ \E g \in 1..nObj : g # ack[c].obj /\ heap[g].socketId = d

=============================================================================
